---- MODULE Spec2Model ----
(***************************************************************************)
(* Home-IO: the RetroVUMeter component (needle smoothing, peak hold, the   *)
(* decay interval and the animation-frame loop) as a state machine, and    *)
(* the parts around it: the level simulation of RetroStereoInterface, the  *)
(* theme provider, the Dashboard's device polling, the thermostat tile's   *)
(* command handlers and the Teensy firmware's serial command loop.  Each   *)
(* part has its own variables and its own specification; the variables of  *)
(* the other parts stay at fixed idle values.                              *)
(*                                                                         *)
(* Decibel values are JavaScript Numbers in the source.  Here they are     *)
(* fixed-point integers, Scale units per dB, and a product with the spring *)
(* factor is rounded to the nearest unit (as IEEE arithmetic rounds to the *)
(* nearest representable value, at a much finer resolution).               *)
(***************************************************************************)
EXTENDS Integers, FiniteSets, Sequences, TLC

VARIABLES
    \* ---- one RetroVUMeter instance ----
    phase,          \* "rendered" (first render done, effects not yet run), "mounted", "unmounted"
    level,          \* prop level
    peak,           \* prop peak
    showPeakHold,   \* prop showPeakHold
    theme,          \* useTheme().theme
    peakHoldRef,    \* peakHoldRef.current
    needlePosRef,   \* needlePosRef.current
    animationRef,   \* animationRef.current: 0 is null, otherwise a request id
    rafPending,     \* the host's pending animation-frame requests: [id, level] (draw closure)
    decayInterval,  \* the interval id held by the latest [peak] effect's cleanup closure
    intervals,      \* the host's active intervals: [id, peak, elapsed] (callback closure)
    draws,          \* number of draw() calls that moved the needle
    \* ---- iteration of the needle update rule alone ----
    nStart,         \* needle position before the first step
    nTarget,        \* the fixed target level
    nPos,           \* needle position
    nSteps,         \* steps taken
    nNum, nDen,     \* spring factor nNum / nDen
    nPeakHold,      \* the peak hold the frame draws
    nAngle,         \* needleAngle of the last frame (degrees, fixed-point)
    nPeakDrawn,     \* whether the last frame drew the peak tick
    nPeakAngle,     \* the peak tick's angle in the last frame that drew it
    nLo, nHi,       \* least and greatest level fed so far (the start included)
    nRetargets,     \* changes of the level input so far
    \* ---- the two mapping functions applied to a pair of inputs ----
    mStage,         \* "input", "percent" (dbToPercent applied), "raw" (percents given), "angle"
    mDbA, mDbB,     \* decibel inputs, mDbA <= mDbB
    mPctA, mPctB,   \* percents
    mAngA, mAngB,   \* angles
    \* ---- two RetroVUMeter instances (left / right) on one host ----
    chPhase,        \* per instance: "rendered", "mounted", "unmounted"
    chLevel,        \* per instance: prop level
    chPeak,         \* per instance: prop peak
    chPeakHold,     \* per ref cell: peakHoldRef.current
    chNeedle,       \* per ref cell: needlePosRef.current
    chAnimation,    \* per ref cell: animationRef.current
    chDecay,        \* per instance: the interval id its [peak] cleanup holds
    chDraws,        \* per instance: draw() calls that moved the needle
    hostFrames,     \* the window's pending animation-frame requests: [id, owner, level]
    hostIntervals,  \* the window's active intervals: [id, owner, peak]
    actor,          \* the instance whose effect or callback ran last
    \* ---- frames and decay ticks of one meter in any order ----
    oLevel,         \* prop level
    oPeak,          \* prop peak
    oNeedle0,       \* needlePosRef.current before the first callback
    oHold0,         \* peakHoldRef.current before the first callback
    oNeedle,        \* needlePosRef.current
    oHold,          \* peakHoldRef.current
    oFrames,        \* animation-frame callbacks run
    oTicks,         \* interval callbacks run
    \* ---- ThemeProvider ----
    thTheme,        \* the theme state
    thStored,       \* localStorage 'theme' (NoItem when absent)
    thBody,         \* document.body.className
    thMounted,      \* whether the provider's effect has run
    thTrail,        \* the themes before each of the latest consecutive toggles (at most 3)
    thToggles,      \* toggleTheme calls so far
    \* ---- Teensy firmware: the serial command loop ----
    tSent,          \* every byte the host sends, in order
    tStream,        \* the bytes not yet arrived at the serial port
    tRx,            \* the serial receive buffer (Serial.available / Serial.read)
    commandBuffer,  \* String commandBuffer
    commandComplete,\* bool commandComplete
    tProcessed,     \* the arguments of the processCommand calls, in order
    \* ---- RetroStereoInterface: the level simulation ----
    simPhase,       \* "rendered" (first render done, effects not yet run), "mounted", "unmounted"
    powerState,     \* state powerState
    mute,           \* state mute
    volume,         \* state volume
    leftLevel,      \* state leftLevel (dB)
    rightLevel,     \* state rightLevel (dB)
    leftPeak,       \* state leftPeak (dB)
    rightPeak,      \* state rightPeak (dB)
    simIntervals,   \* the window's active intervals: [id, volume, leftPeak, rightPeak] (callback closure)
    simHeld,        \* the interval id the simulation effect's cleanup holds, 0 when it has none
    \* ---- Dashboard: fetchDevices, the poll and the tiles' commands ----
    dPhase,         \* "rendered" (first render done, effect not yet run), "mounted", "unmounted"
    thermostats,    \* state thermostats
    smartPlugs,     \* state smartPlugs
    loading,        \* state loading
    error,          \* state error (NoError is null)
    dCalls,         \* ids of the fetchDevices calls awaiting Promise.all
    dPolls,         \* the window's active intervals whose callback is fetchDevices
    dHeld,          \* the interval id the effect's cleanup holds
    dCommands,      \* tile commands awaiting their request (handleToggle and the like)
    dStarted,       \* fetchDevices calls started so far
    dDone,          \* fetchDevices calls completed so far
    dLast,          \* the two responses of the call completed last
    \* ---- ThermostatTile: its two command handlers ----
    tileMode,       \* safeThermo.mode of the current render
    temperature,    \* state temperature
    isEditing,      \* state isEditing
    tileLoading,    \* state loading
    tileRequests,   \* requests awaiting their response: [id, kind, mode, value]
    tileCalls,      \* handler calls so far
    tileLast,       \* the handler called last and its argument
    tileSent,       \* requests sent so far
    tileSettled,    \* requests answered so far
    tileUpdates     \* onUpdate() calls so far

meterVars == <<phase, level, peak, showPeakHold, theme, peakHoldRef, needlePosRef,
               animationRef, rafPending, decayInterval, intervals, draws>>
needleVars == <<nStart, nTarget, nPos, nSteps, nNum, nDen>>
frameVars == <<nPeakHold, nAngle, nPeakDrawn, nPeakAngle>>
rangeVars == <<nLo, nHi, nRetargets>>
mapVars == <<mStage, mDbA, mDbB, mPctA, mPctB, mAngA, mAngB>>
pureVars == <<needleVars, frameVars, rangeVars, mapVars>>
stereoVars == <<chPhase, chLevel, chPeak, chPeakHold, chNeedle, chAnimation, chDecay,
                chDraws, hostFrames, hostIntervals, actor>>
orderVars == <<oLevel, oPeak, oNeedle0, oHold0, oNeedle, oHold, oFrames, oTicks>>
themeVars == <<thTheme, thStored, thBody, thMounted, thTrail, thToggles>>
teensyVars == <<tSent, tStream, tRx, commandBuffer, commandComplete, tProcessed>>
simVars == <<simPhase, powerState, mute, volume, leftLevel, rightLevel, leftPeak, rightPeak, simIntervals, simHeld>>
dashVars == <<dPhase, thermostats, smartPlugs, loading, error, dCalls, dPolls, dHeld, dCommands, dStarted, dDone, dLast>>
tileVars == <<tileMode, temperature, isEditing, tileLoading, tileRequests, tileCalls, tileLast, tileSent, tileSettled, tileUpdates>>
extraVars == <<orderVars, themeVars, teensyVars, simVars, dashVars, tileVars>>
nonMeterVars == <<pureVars, stereoVars, extraVars>>
componentVars == <<meterVars, stereoVars, extraVars>>
nonStereoVars == <<meterVars, pureVars, extraVars>>
vuVars == <<meterVars, pureVars, stereoVars>>
vars == <<meterVars, pureVars, stereoVars, extraVars>>

\* Everything but one group of the extra variables
nonOrderVars == <<vuVars, themeVars, teensyVars, simVars, dashVars, tileVars>>
nonThemeVars == <<vuVars, orderVars, teensyVars, simVars, dashVars, tileVars>>
nonTeensyVars == <<vuVars, orderVars, themeVars, simVars, dashVars, tileVars>>
nonSimVars == <<vuVars, orderVars, themeVars, teensyVars, dashVars, tileVars>>
nonDashVars == <<vuVars, orderVars, themeVars, teensyVars, simVars, tileVars>>
nonTileVars == <<vuVars, orderVars, themeVars, teensyVars, simVars, dashVars>>

---------------------------------------------------------------------------
(* Resolution and bounds *)

Scale == 10^6                   \* fixed-point units per dB
MaxDraws == 2                   \* needle-moving draw() calls per behaviour
StepsPerPeriod == 2             \* clock steps that make up the 1000 ms decay period
MaxNeedleSteps == 50            \* steps of the needle rule in SpecNeedle

SpringNum == 8                  \* 0.08 = 8 / 100
SpringDen == 100

DecayStep == Scale \div 2       \* 0.5 dB

Levels == {-60 * Scale, -20 * Scale, 0}
Peaks == {-20 * Scale, -10 * Scale, -53 * (Scale \div 10), -5 * Scale}
Themes == {"default", "retro", "night"}
InitialLevels == {-20 * Scale}
InitialPeaks == {-10 * Scale, -20 * Scale}

---------------------------------------------------------------------------
(* Pure helpers *)

\* n / d rounded to the nearest integer (d > 0)
RoundDiv(n, d) == (2 * n + d) \div (2 * d)

MinDb == -60                    \* const minDb = -60
MaxDb == 6                      \* const maxDb = 6

Max(a, b) == IF a >= b THEN a ELSE b
Min(a, b) == IF a <= b THEN a ELSE b

\* Mutants of dbToPercent: the clamp left out, and the scale ending at 0 dB
dbToPercentNoClamp(db) == RoundDiv(db - MinDb * Scale, MaxDb - MinDb)

dbToPercentMaxZero(db) ==
    RoundDiv(Max(MinDb * Scale, Min(0, db)) - MinDb * Scale, 0 - MinDb)

\* limitedDb = Math.max(minDb, Math.min(maxDb, db));
\* return (limitedDb - minDb) / (maxDb - minDb)
\* The result is a fixed-point fraction, Scale units for 1.0
dbToPercent(db) ==
    LET limitedDb == Max(MinDb * Scale, Min(MaxDb * Scale, db))
    IN  RoundDiv(limitedDb - MinDb * Scale, MaxDb - MinDb)

\* Mutants of percentToAngle: the sweep reversed, and a 180 degree sweep
percentToAngleReversed(percent) == 45 * Scale - percent * 90

percentToAngleWide(percent) == -90 * Scale + percent * 180

\* return -45 + (percent * 90): degrees, Scale units per degree
percentToAngle(percent) == -45 * Scale + percent * 90

\* Mutants of the needle rule: the acceleration subtracted, the spring factor
\* left out
AdvanceNeedleWithSignSlip(pos, target, num, den) ==
    pos - RoundDiv((target - pos) * num, den)

AdvanceNeedleWithNoFactor(pos, target, num, den) == pos + (target - pos)

\* Mutant: the acceleration taken from the target, not from the distance to it
AdvanceNeedleWithTargetForce(pos, target, num, den) ==
    pos + RoundDiv(target * num, den)

\* Mutant: a spring factor ten times too small (0.008 for 0.08)
AdvanceNeedleWithWeakSpring(pos, target, num, den) ==
    pos + RoundDiv((target - pos) * num, 10 * den)

\* draw: distanceToTarget = target - pos; acceleration = distance * factor; pos += acceleration
AdvanceNeedleWith(pos, target, num, den) ==
    LET distanceToTarget == target - pos
        acceleration == RoundDiv(distanceToTarget * num, den)
    IN  pos + acceleration

\* Mutant: two steps of the rule in one draw
AdvanceNeedleTwice(pos, target) ==
    AdvanceNeedleWith(AdvanceNeedleWith(pos, target, SpringNum, SpringDen), target,
                      SpringNum, SpringDen)

AdvanceNeedle(pos, target) == AdvanceNeedleWith(pos, target, SpringNum, SpringDen)

\* Mutant: the peak hold re-initialised from the prop on every update
UpdatePeakHoldReset(hold, p) == p

\* Mutant: the rise smoothed, half of the way to the new peak
UpdatePeakHoldSmoothed(hold, p) == IF p > hold THEN hold + (p - hold) \div 2 ELSE hold

\* if (peak > peakHoldRef.current) peakHoldRef.current = peak
UpdatePeakHold(hold, p) == IF p > hold THEN p ELSE hold

\* Mutants of the decay: the floor check left out, and the step added
DecayPeakHoldNoFloor(hold, p) == hold - DecayStep

DecayPeakHoldUp(hold, p) == IF hold > p THEN hold + DecayStep ELSE hold

\* if (peakHoldRef.current > peak) peakHoldRef.current -= 0.5
DecayPeakHold(hold, p) == IF hold > p THEN hold - DecayStep ELSE hold

\* An id the host hands out: any id that is neither in use nor still held by
\* the component (ids are only ever compared for equality)
FreshId(used) == CHOOSE n \in 1..(Cardinality(used) + 1) : n \notin used

Ids(set) == {x.id : x \in set}

\* clearInterval(id)
ClearInterval(ivs, id) == {i \in ivs : i.id # id}

\* if (animationRef.current) cancelAnimationFrame(animationRef.current)
CancelAnimation(reqs, ref) == IF ref # 0 THEN {r \in reqs : r.id # ref} ELSE reqs

---------------------------------------------------------------------------
(* Effects of RetroVUMeter *)

\* Mutant: the cleanup forgets clearInterval
PeakCleanupKeepsInterval(ivs, id) == ivs

\* cleanup of useEffect(..., [peak])
PeakCleanupIntervals(ivs, id) == ClearInterval(ivs, id)
PeakCleanupFrames(reqs, ref) == CancelAnimation(reqs, ref)

\* Mutant: the drawing effect's cleanup leaves the request pending
DrawCleanupKeepsFrame(reqs, ref) == reqs

\* cleanup of useEffect(..., [level, peak, showPeakHold, theme])
DrawCleanupFrames(reqs, ref) == CancelAnimation(reqs, ref)

\* setInterval(() => {...}, 1000) in the [peak] effect: the new interval
NewInterval(ivs, held, p) ==
    [id |-> FreshId(Ids(ivs) \cup {held}), peak |-> p, elapsed |-> 0]

\* requestAnimationFrame(draw): the new request
NewRequest(reqs, ref, lvl) == [id |-> FreshId(Ids(reqs) \cup {ref}), level |-> lvl]

\* draw() may run: the needle-moving draws are capped
CanDraw(lvl) == draws < MaxDraws \/ AdvanceNeedle(needlePosRef, lvl) = needlePosRef

\* draw() with the closure's level, on the pending set `reqs`
Draw(reqs, lvl) ==
    /\ needlePosRef' = AdvanceNeedle(needlePosRef, lvl)
    /\ draws' = IF needlePosRef' # needlePosRef THEN draws + 1 ELSE draws
    /\ LET r == NewRequest(reqs, animationRef, lvl)
       IN  /\ animationRef' = r.id
           /\ rafPending' = reqs \cup {r}

---------------------------------------------------------------------------
(* Actions of the meter *)

\* First commit: both effects run, in order
Mount ==
    /\ phase = "rendered"
    /\ phase' = "mounted"
    /\ peakHoldRef' = UpdatePeakHold(peakHoldRef, peak)
    /\ LET i == NewInterval(intervals, decayInterval, peak)
       IN  /\ intervals' = intervals \cup {i}
           /\ decayInterval' = i.id
    /\ CanDraw(level)
    /\ Draw(rafPending, level)
    /\ UNCHANGED <<level, peak, showPeakHold, theme>>
    /\ UNCHANGED nonMeterVars

\* Re-render with changed inputs: cleanups of the effects whose dependencies
\* changed, then those effects again
Update(l, p, s, t) ==
    /\ phase = "mounted"
    /\ <<l, p, s, t>> # <<level, peak, showPeakHold, theme>>
    /\ CanDraw(l)
    /\ level' = l /\ peak' = p /\ showPeakHold' = s /\ theme' = t
    /\ LET peakChanged == p # peak
           ivs1 == IF peakChanged THEN PeakCleanupIntervals(intervals, decayInterval)
                                  ELSE intervals
           reqs1 == IF peakChanged THEN PeakCleanupFrames(rafPending, animationRef)
                                   ELSE rafPending
           reqs2 == DrawCleanupFrames(reqs1, animationRef)
           i == NewInterval(ivs1, decayInterval, p)
       IN  /\ peakHoldRef' = IF peakChanged THEN UpdatePeakHold(peakHoldRef, p)
                                            ELSE peakHoldRef
           /\ intervals' = IF peakChanged THEN ivs1 \cup {i} ELSE intervals
           /\ decayInterval' = IF peakChanged THEN i.id ELSE decayInterval
           /\ Draw(reqs2, l)
    /\ phase' = phase
    /\ UNCHANGED nonMeterVars

\* The host runs a pending animation-frame callback
Frame(r) ==
    /\ r \in rafPending
    /\ CanDraw(r.level)
    /\ Draw(rafPending \ {r}, r.level)
    /\ UNCHANGED <<phase, level, peak, showPeakHold, theme, peakHoldRef,
                   decayInterval, intervals>>
    /\ UNCHANGED nonMeterVars

\* One clock step passes; a due interval callback runs first
AdvanceTime ==
    /\ intervals # {}
    /\ \A i \in intervals : i.elapsed < StepsPerPeriod
    /\ intervals' = {[i EXCEPT !.elapsed = @ + 1] : i \in intervals}
    /\ UNCHANGED <<phase, level, peak, showPeakHold, theme, peakHoldRef, needlePosRef,
                   animationRef, rafPending, decayInterval, draws>>
    /\ UNCHANGED nonMeterVars

\* The host runs a due interval callback
DecayTick(i) ==
    /\ i \in intervals
    /\ i.elapsed = StepsPerPeriod
    /\ peakHoldRef' = DecayPeakHold(peakHoldRef, i.peak)
    /\ intervals' = (intervals \ {i}) \cup {[i EXCEPT !.elapsed = 0]}
    /\ UNCHANGED <<phase, level, peak, showPeakHold, theme, needlePosRef,
                   animationRef, rafPending, decayInterval, draws>>
    /\ UNCHANGED nonMeterVars

\* Unmount: both cleanups run
Unmount ==
    /\ phase = "mounted"
    /\ phase' = "unmounted"
    /\ intervals' = PeakCleanupIntervals(intervals, decayInterval)
    /\ rafPending' = DrawCleanupFrames(PeakCleanupFrames(rafPending, animationRef),
                                       animationRef)
    /\ UNCHANGED <<level, peak, showPeakHold, theme, peakHoldRef, needlePosRef,
                   animationRef, decayInterval, draws>>
    /\ UNCHANGED nonMeterVars

\* The needle-rule variables while the meter runs
NeedleIdle ==
    /\ nStart = 0 /\ nTarget = 0 /\ nPos = 0 /\ nSteps = 0
    /\ nNum = SpringNum /\ nDen = SpringDen
    /\ nPeakHold = 0 /\ nAngle = 0 /\ nPeakDrawn = FALSE /\ nPeakAngle = 0
    /\ nLo = 0 /\ nHi = 0 /\ nRetargets = 0

Channels == {"left", "right"}

\* The two-instance variables while another part runs
StereoIdle ==
    /\ chPhase = [c \in Channels |-> "none"]
    /\ chLevel = [c \in Channels |-> 0]
    /\ chPeak = [c \in Channels |-> 0]
    /\ chPeakHold = [c \in Channels |-> 0]
    /\ chNeedle = [c \in Channels |-> 0]
    /\ chAnimation = [c \in Channels |-> 0]
    /\ chDecay = [c \in Channels |-> 0]
    /\ chDraws = [c \in Channels |-> 0]
    /\ hostFrames = {}
    /\ hostIntervals = {}
    /\ actor = "none"

\* The mapping variables while another part runs
MapIdle ==
    /\ mStage = "none" /\ mDbA = 0 /\ mDbB = 0
    /\ mPctA = 0 /\ mPctB = 0 /\ mAngA = 0 /\ mAngB = 0

\* The order variables while another part runs
OrderIdle ==
    /\ oLevel = 0 /\ oPeak = 0 /\ oNeedle0 = 0 /\ oHold0 = 0
    /\ oNeedle = 0 /\ oHold = 0 /\ oFrames = 0 /\ oTicks = 0

\* The theme variables while another part runs
ThemeIdle ==
    /\ thTheme = "default" /\ thStored = "default" /\ thBody = ""
    /\ thMounted = FALSE /\ thTrail = <<>> /\ thToggles = 0

\* The teensy variables while another part runs
TeensyIdle ==
    /\ tSent = <<>> /\ tStream = <<>> /\ tRx = <<>>
    /\ commandBuffer = "" /\ commandComplete = FALSE /\ tProcessed = <<>>

\* The sim variables while another part runs
SimIdle ==
    /\ simPhase = "none" /\ powerState = "off" /\ mute = FALSE /\ volume = 0
    /\ leftLevel = 0 /\ rightLevel = 0 /\ leftPeak = 0 /\ rightPeak = 0
    /\ simIntervals = {} /\ simHeld = 0

\* The dash variables while another part runs
DashIdle ==
    /\ dPhase = "none" /\ thermostats = <<>> /\ smartPlugs = <<>>
    /\ loading = FALSE /\ error = "" /\ dCalls = {} /\ dPolls = {} /\ dHeld = 0
    /\ dCommands = 0 /\ dStarted = 0 /\ dDone = 0 /\ dLast = <<>>

\* The tile variables while another part runs
TileIdle ==
    /\ tileMode = "none" /\ temperature = 0 /\ isEditing = FALSE /\ tileLoading = FALSE
    /\ tileRequests = {} /\ tileCalls = 0 /\ tileLast = <<>> /\ tileSent = 0
    /\ tileSettled = 0 /\ tileUpdates = 0

\* Everything outside the VU meter models while one of them runs
ExtraIdle ==
    /\ OrderIdle
    /\ ThemeIdle
    /\ TeensyIdle
    /\ SimIdle
    /\ DashIdle
    /\ TileIdle

\* All but one group of the extra variables idle
NonOrderIdle == ThemeIdle /\ TeensyIdle /\ SimIdle /\ DashIdle /\ TileIdle
NonThemeIdle == OrderIdle /\ TeensyIdle /\ SimIdle /\ DashIdle /\ TileIdle
NonTeensyIdle == OrderIdle /\ ThemeIdle /\ SimIdle /\ DashIdle /\ TileIdle
NonSimIdle == OrderIdle /\ ThemeIdle /\ TeensyIdle /\ DashIdle /\ TileIdle
NonDashIdle == OrderIdle /\ ThemeIdle /\ TeensyIdle /\ SimIdle /\ TileIdle
NonTileIdle == OrderIdle /\ ThemeIdle /\ TeensyIdle /\ SimIdle /\ DashIdle

\* Mutant: the refs created as useRef(0), not from the props
InitRefsZero ==
    /\ phase = "rendered"
    /\ level \in InitialLevels
    /\ peak \in InitialPeaks
    /\ showPeakHold \in BOOLEAN
    /\ theme \in Themes
    /\ peakHoldRef = 0
    /\ needlePosRef = 0
    /\ animationRef = 0
    /\ rafPending = {}
    /\ decayInterval = 0
    /\ intervals = {}
    /\ draws = 0
    /\ NeedleIdle
    /\ MapIdle
    /\ StereoIdle
    /\ ExtraIdle

\* After the first render: refs hold the initial props, no effect has run
Init ==
    /\ phase = "rendered"
    /\ level \in InitialLevels
    /\ peak \in InitialPeaks
    /\ showPeakHold \in BOOLEAN
    /\ theme \in Themes
    /\ peakHoldRef = peak
    /\ needlePosRef = level
    /\ animationRef = 0
    /\ rafPending = {}
    /\ decayInterval = 0
    /\ intervals = {}
    /\ draws = 0
    /\ NeedleIdle
    /\ MapIdle
    /\ StereoIdle
    /\ ExtraIdle

Next ==
    \/ Mount
    \/ \E l \in Levels, p \in Peaks, s \in BOOLEAN, t \in Themes : Update(l, p, s, t)
    \/ \E r \in rafPending : Frame(r)
    \/ AdvanceTime
    \/ \E i \in intervals : DecayTick(i)
    \/ Unmount

Spec == Init /\ [][Next]_vars

\* The host's clock runs and a due interval callback is run
SpecLive ==
    /\ Init
    /\ [][Next]_vars
    /\ WF_vars(AdvanceTime)
    /\ WF_vars(\E i \in intervals : DecayTick(i))

---------------------------------------------------------------------------
(* The needle update rule iterated with a fixed target *)

NeedleStarts == {-60 * Scale, -20 * Scale, 0, 6 * Scale}
NeedleTargets == {-70 * Scale, -60 * Scale, -20 * Scale, 0, 6 * Scale, 10 * Scale}
NeedlePeakHolds == {-70 * Scale, -5 * Scale, 10 * Scale}
SpringFactors == {<<SpringNum, SpringDen>>, <<1, 4>>, <<1, 2>>, <<1, 1>>}

MeterIdle ==
    /\ phase = "none" /\ level = 0 /\ peak = 0 /\ showPeakHold = TRUE
    /\ theme = "default" /\ peakHoldRef = 0 /\ needlePosRef = 0 /\ animationRef = 0
    /\ rafPending = {} /\ decayInterval = 0 /\ intervals = {} /\ draws = 0

InitNeedle ==
    /\ MeterIdle
    /\ MapIdle
    /\ StereoIdle
    /\ ExtraIdle
    /\ nStart \in NeedleStarts
    /\ nTarget \in NeedleTargets
    /\ nPos = nStart
    /\ nSteps = 0
    /\ \E f \in SpringFactors : nNum = f[1] /\ nDen = f[2]
    /\ nPeakHold \in NeedlePeakHolds
    /\ nAngle = 0 /\ nPeakDrawn = FALSE /\ nPeakAngle = 0
    /\ nLo = Min(nStart, nTarget) /\ nHi = Max(nStart, nTarget)
    /\ nRetargets = 0

\* The numbers one draw() computes, with needleTarget = target:
\*   peakHoldPercent = dbToPercent(peakHoldRef.current)
\*   needlePosRef.current += (needleTarget - needlePosRef.current) * factor
\*   needleAngle = percentToAngle(dbToPercent(needlePosRef.current))
\*   if (showPeakHold && peakHoldPercent > 0) peakAngle = percentToAngle(peakHoldPercent)
\* (angles are kept in degrees)
DrawNumbers(target) ==
    LET peakHoldPercent == dbToPercent(nPeakHold)
    IN  /\ nPos' = AdvanceNeedleWith(nPos, target, nNum, nDen)
        /\ nAngle' = percentToAngle(dbToPercent(nPos'))
        /\ nPeakDrawn' = (showPeakHold /\ peakHoldPercent > 0)
        /\ nPeakAngle' = IF nPeakDrawn' THEN percentToAngle(peakHoldPercent)
                                        ELSE nPeakAngle

\* One frame with the level unchanged
NeedleStep ==
    /\ nSteps < MaxNeedleSteps
    /\ DrawNumbers(nTarget)
    /\ nSteps' = nSteps + 1
    /\ UNCHANGED <<nStart, nTarget, nNum, nDen, nPeakHold>>
    /\ UNCHANGED <<rangeVars, mapVars>>
    /\ UNCHANGED componentVars

NextNeedle == NeedleStep

SpecNeedle == InitNeedle /\ [][NextNeedle]_vars

---------------------------------------------------------------------------
(* The needle under a changing level: frames and level changes interleaved *)

MaxStableSteps == 12            \* draws per behaviour
MaxRetargets == 3               \* level changes per behaviour
StableLevels == {-60 * Scale, -20 * Scale, 6 * Scale}

\* A new meter: needlePosRef = useRef(level)
InitStable ==
    /\ MeterIdle
    /\ MapIdle
    /\ StereoIdle
    /\ ExtraIdle
    /\ nStart \in StableLevels
    /\ nTarget = nStart
    /\ nPos = nStart
    /\ nSteps = 0
    /\ nNum = SpringNum /\ nDen = SpringDen
    /\ nPeakHold = -5 * Scale
    /\ nAngle = 0 /\ nPeakDrawn = FALSE /\ nPeakAngle = 0
    /\ nLo = nStart /\ nHi = nStart
    /\ nRetargets = 0

\* An animation frame
StableFrame ==
    /\ nSteps < MaxStableSteps
    /\ NeedleStep

\* The level prop changes to t: the drawing effect runs draw() with the new level
Retarget(t) ==
    /\ nSteps < MaxStableSteps
    /\ nRetargets < MaxRetargets
    /\ t # nTarget
    /\ nTarget' = t
    /\ DrawNumbers(t)
    /\ nSteps' = nSteps + 1
    /\ nRetargets' = nRetargets + 1
    /\ nLo' = Min(nLo, t) /\ nHi' = Max(nHi, t)
    /\ UNCHANGED <<nStart, nNum, nDen, nPeakHold>>
    /\ UNCHANGED mapVars
    /\ UNCHANGED componentVars

NextStable ==
    \/ StableFrame
    \/ \E t \in StableLevels : Retarget(t)

SpecStable == InitStable /\ [][NextStable]_vars

---------------------------------------------------------------------------
(* dbToPercent and percentToAngle applied to pairs of inputs *)

DbInputs ==
    {k * Scale : k \in {-70, -61, -60, -59, -30, 0, 3, 5, 6, 7, 10}}
        \cup {-60 * Scale - 1, -60 * Scale + 1, 6 * Scale - 1, 6 * Scale + 1}
PercentInputs == {-(Scale \div 2), 0, Scale \div 4, Scale \div 2, Scale, 2 * Scale}

InitMap ==
    /\ MeterIdle
    /\ NeedleIdle
    /\ StereoIdle
    /\ ExtraIdle
    /\ mStage = "input"
    /\ mDbA \in DbInputs /\ mDbB \in DbInputs /\ mDbA <= mDbB
    /\ mPctA = 0 /\ mPctB = 0 /\ mAngA = 0 /\ mAngB = 0

\* dbToPercent on both inputs
ApplyDbToPercent ==
    /\ mStage = "input"
    /\ mStage' = "percent"
    /\ mPctA' = dbToPercent(mDbA)
    /\ mPctB' = dbToPercent(mDbB)
    /\ UNCHANGED <<mDbA, mDbB, mAngA, mAngB>>
    /\ UNCHANGED <<needleVars, frameVars, rangeVars, componentVars>>

\* Percents given directly, a <= b
GivePercents(a, b) ==
    /\ mStage = "input"
    /\ a <= b
    /\ mStage' = "raw"
    /\ mPctA' = a
    /\ mPctB' = b
    /\ UNCHANGED <<mDbA, mDbB, mAngA, mAngB>>
    /\ UNCHANGED <<needleVars, frameVars, rangeVars, componentVars>>

\* percentToAngle on both percents
ApplyPercentToAngle ==
    /\ mStage \in {"percent", "raw"}
    /\ mStage' = IF mStage = "percent" THEN "angle" ELSE "rawangle"
    /\ mAngA' = percentToAngle(mPctA)
    /\ mAngB' = percentToAngle(mPctB)
    /\ UNCHANGED <<mDbA, mDbB, mPctA, mPctB>>
    /\ UNCHANGED <<needleVars, frameVars, rangeVars, componentVars>>

NextMap ==
    \/ ApplyDbToPercent
    \/ \E a \in PercentInputs, b \in PercentInputs : GivePercents(a, b)
    \/ ApplyPercentToAngle

SpecMap == InitMap /\ [][NextMap]_vars

---------------------------------------------------------------------------
(* Two RetroVUMeter instances, as RetroStereoInterface renders them.  The    *)
(* window's animation-frame requests and intervals are one pool each; every *)
(* instance has its own props, refs and effect closures.  Interval          *)
(* callbacks run at any time here.                                          *)

MaxStereoDraws == 1             \* needle-moving draw() calls per instance
StereoLevels == {-30 * Scale, -60 * Scale}
StereoPeaks == {-20 * Scale, -195 * (Scale \div 10)}

\* Mutant: the refs kept at module scope, one cell for all instances
RefCellShared(c) == "left"

\* useRef inside the component: every instance has its own ref cells
RefCell(c) == c

HeldFrames == {chAnimation[c] : c \in Channels}
HeldIntervals == {chDecay[c] : c \in Channels}

\* leftLevel/rightLevel start at -30, leftPeak/rightPeak at -20; the refs of
\* each instance start at its props
InitStereo ==
    /\ MeterIdle
    /\ NeedleIdle
    /\ MapIdle
    /\ ExtraIdle
    /\ chPhase = [c \in Channels |-> "rendered"]
    /\ chLevel = [c \in Channels |-> -30 * Scale]
    /\ chPeak = [c \in Channels |-> -20 * Scale]
    /\ chPeakHold = [c \in Channels |-> -20 * Scale]
    /\ chNeedle = [c \in Channels |-> -30 * Scale]
    /\ chAnimation = [c \in Channels |-> 0]
    /\ chDecay = [c \in Channels |-> 0]
    /\ chDraws = [c \in Channels |-> 0]
    /\ hostFrames = {}
    /\ hostIntervals = {}
    /\ actor = "none"

StereoCanDraw(c, lvl) ==
    \/ chDraws[c] < MaxStereoDraws
    \/ AdvanceNeedle(chNeedle[RefCell(c)], lvl) = chNeedle[RefCell(c)]

\* draw() of instance c with the closure's level, on the pending requests `reqs`
StereoDraw(c, reqs, lvl) ==
    LET cell == RefCell(c)
        pos == AdvanceNeedle(chNeedle[cell], lvl)
        id == FreshId(Ids(reqs) \cup HeldFrames)
    IN  /\ chNeedle' = [chNeedle EXCEPT ![cell] = pos]
        /\ chDraws' = [chDraws EXCEPT ![c] = IF pos # chNeedle[cell] THEN @ + 1 ELSE @]
        /\ chAnimation' = [chAnimation EXCEPT ![cell] = id]
        /\ hostFrames' = reqs \cup {[id |-> id, owner |-> c, level |-> lvl]}

\* setInterval in the [peak] effect of instance c
StereoNewInterval(c, ivs, p) ==
    [id |-> FreshId(Ids(ivs) \cup HeldIntervals), owner |-> c, peak |-> p]

\* First commit of instance c
StereoMount(c) ==
    /\ chPhase[c] = "rendered"
    /\ StereoCanDraw(c, chLevel[c])
    /\ chPhase' = [chPhase EXCEPT ![c] = "mounted"]
    /\ chPeakHold' = [chPeakHold EXCEPT
                        ![RefCell(c)] = UpdatePeakHold(@, chPeak[c])]
    /\ LET i == StereoNewInterval(c, hostIntervals, chPeak[c])
       IN  /\ hostIntervals' = hostIntervals \cup {i}
           /\ chDecay' = [chDecay EXCEPT ![c] = i.id]
    /\ StereoDraw(c, hostFrames, chLevel[c])
    /\ actor' = c
    /\ UNCHANGED <<chLevel, chPeak>>
    /\ UNCHANGED nonStereoVars

\* Instance c re-renders with a changed level or peak
StereoUpdate(c, l, p) ==
    /\ chPhase[c] = "mounted"
    /\ <<l, p>> # <<chLevel[c], chPeak[c]>>
    /\ StereoCanDraw(c, l)
    /\ chLevel' = [chLevel EXCEPT ![c] = l]
    /\ chPeak' = [chPeak EXCEPT ![c] = p]
    /\ LET cell == RefCell(c)
           peakChanged == p # chPeak[c]
           ivs1 == IF peakChanged THEN PeakCleanupIntervals(hostIntervals, chDecay[c])
                                  ELSE hostIntervals
           reqs1 == IF peakChanged THEN PeakCleanupFrames(hostFrames, chAnimation[cell])
                                   ELSE hostFrames
           reqs2 == DrawCleanupFrames(reqs1, chAnimation[cell])
           i == StereoNewInterval(c, ivs1, p)
       IN  /\ chPeakHold' = IF peakChanged
                              THEN [chPeakHold EXCEPT ![cell] = UpdatePeakHold(@, p)]
                              ELSE chPeakHold
           /\ hostIntervals' = IF peakChanged THEN ivs1 \cup {i} ELSE hostIntervals
           /\ chDecay' = IF peakChanged THEN [chDecay EXCEPT ![c] = i.id] ELSE chDecay
           /\ StereoDraw(c, reqs2, l)
    /\ actor' = c
    /\ UNCHANGED chPhase
    /\ UNCHANGED nonStereoVars

\* The window runs a pending animation-frame callback
StereoFrame(r) ==
    /\ r \in hostFrames
    /\ StereoCanDraw(r.owner, r.level)
    /\ StereoDraw(r.owner, hostFrames \ {r}, r.level)
    /\ actor' = r.owner
    /\ UNCHANGED <<chPhase, chLevel, chPeak, chPeakHold, chDecay, hostIntervals>>
    /\ UNCHANGED nonStereoVars

\* The window runs an interval callback
StereoDecayTick(i) ==
    /\ i \in hostIntervals
    /\ chPeakHold' = [chPeakHold EXCEPT
                        ![RefCell(i.owner)] = DecayPeakHold(@, i.peak)]
    /\ actor' = i.owner
    /\ UNCHANGED <<chPhase, chLevel, chPeak, chNeedle, chAnimation, chDecay, chDraws,
                   hostFrames, hostIntervals>>
    /\ UNCHANGED nonStereoVars

\* Instance c unmounts: both cleanups run
StereoUnmount(c) ==
    /\ chPhase[c] = "mounted"
    /\ chPhase' = [chPhase EXCEPT ![c] = "unmounted"]
    /\ hostIntervals' = PeakCleanupIntervals(hostIntervals, chDecay[c])
    /\ hostFrames' =
          DrawCleanupFrames(PeakCleanupFrames(hostFrames, chAnimation[RefCell(c)]),
                            chAnimation[RefCell(c)])
    /\ actor' = c
    /\ UNCHANGED <<chLevel, chPeak, chPeakHold, chNeedle, chAnimation, chDecay, chDraws>>
    /\ UNCHANGED nonStereoVars

NextStereo ==
    \/ \E c \in Channels : StereoMount(c)
    \/ \E c \in Channels, l \in StereoLevels, p \in StereoPeaks : StereoUpdate(c, l, p)
    \/ \E r \in hostFrames : StereoFrame(r)
    \/ \E i \in hostIntervals : StereoDecayTick(i)
    \/ \E c \in Channels : StereoUnmount(c)

SpecStereo == InitStereo /\ [][NextStereo]_vars

---------------------------------------------------------------------------
(* Frames and decay ticks of one mounted meter with fixed inputs, run in    *)
(* any order: draw() writes needlePosRef, the interval callback writes      *)
(* peakHoldRef.                                                             *)

MaxOrderFrames == 3
MaxOrderTicks == 3
OrderHolds == {-5 * Scale, -10 * Scale, -20 * Scale}
OrderNeedles == {-60 * Scale, -20 * Scale}

\* The VU meter models while another part runs
VuIdle == MeterIdle /\ NeedleIdle /\ MapIdle /\ StereoIdle

\* Mutant: draw() also pushes the peak hold up to the needle
FrameEffectLiftsHold(pos, hold, lvl) ==
    <<AdvanceNeedle(pos, lvl), Max(hold, AdvanceNeedle(pos, lvl))>>

\* draw(): what it leaves in <<needlePosRef, peakHoldRef>>
FrameEffect(pos, hold, lvl) == <<AdvanceNeedle(pos, lvl), hold>>

\* The interval callback: what it leaves in <<needlePosRef, peakHoldRef>>
TickEffect(pos, hold, p) == <<pos, DecayPeakHold(hold, p)>>

InitOrder ==
    /\ VuIdle
    /\ NonOrderIdle
    /\ oLevel \in Levels
    /\ oPeak \in Peaks
    /\ oNeedle0 \in OrderNeedles
    /\ oHold0 \in OrderHolds
    /\ oHold0 >= oPeak
    /\ oNeedle = oNeedle0
    /\ oHold = oHold0
    /\ oFrames = 0
    /\ oTicks = 0

\* An animation-frame callback runs draw()
OrderFrame ==
    /\ oFrames < MaxOrderFrames
    /\ oFrames' = oFrames + 1
    /\ LET e == FrameEffect(oNeedle, oHold, oLevel)
       IN  oNeedle' = e[1] /\ oHold' = e[2]
    /\ UNCHANGED <<oLevel, oPeak, oNeedle0, oHold0, oTicks>>
    /\ UNCHANGED nonOrderVars

\* The decay interval's callback runs
OrderTick ==
    /\ oTicks < MaxOrderTicks
    /\ oTicks' = oTicks + 1
    /\ LET e == TickEffect(oNeedle, oHold, oPeak)
       IN  oNeedle' = e[1] /\ oHold' = e[2]
    /\ UNCHANGED <<oLevel, oPeak, oNeedle0, oHold0, oFrames>>
    /\ UNCHANGED nonOrderVars

NextOrder == OrderFrame \/ OrderTick

SpecOrder == InitOrder /\ [][NextOrder]_vars

---------------------------------------------------------------------------
(* ThemeProvider: the theme state, loaded from localStorage, changed by     *)
(* toggleTheme and by setTheme from the theme selector, and written back to *)
(* localStorage and document.body by the provider's effect.                 *)

MaxToggles == 8
NoItem == "<none>"              \* localStorage.getItem returns null
StoredThemes == Themes \cup {NoItem, "", "dark", "theme-retro"}

\* Mutant: a two-way toggle that never selects night
toggleThemeTwoWay(prevTheme) == IF prevTheme = "default" THEN "retro" ELSE "default"

\* The updater passed to setTheme by toggleTheme
toggleTheme(prevTheme) ==
    CASE prevTheme = "default" -> "retro"
      [] prevTheme = "retro" -> "night"
      [] OTHER -> "default"

\* localStorage.getItem('theme') || 'default'
savedTheme(item) == IF item = NoItem \/ item = "" THEN "default" ELSE item

\* The provider's effect for the theme t
ThemeEffect(t) ==
    /\ thBody' = "theme-" \o t
    /\ thStored' = t

\* First render of the provider
InitTheme ==
    /\ VuIdle
    /\ NonThemeIdle
    /\ thStored \in StoredThemes
    /\ thTheme = savedTheme(thStored)
    /\ thBody = ""
    /\ thMounted = FALSE
    /\ thTrail = <<>>
    /\ thToggles = 0

\* The effect runs after the first render
ThemeMount ==
    /\ ~thMounted
    /\ thMounted' = TRUE
    /\ ThemeEffect(thTheme)
    /\ UNCHANGED <<thTheme, thTrail, thToggles>>
    /\ UNCHANGED nonThemeVars

\* A click on ThemeToggle: toggleTheme, then the effect
ToggleTheme ==
    /\ thMounted
    /\ thToggles < MaxToggles
    /\ thToggles' = thToggles + 1
    /\ thTheme' = toggleTheme(thTheme)
    /\ thTrail' = IF Len(thTrail) = 3 THEN Tail(thTrail) \o <<thTheme>>
                                      ELSE thTrail \o <<thTheme>>
    /\ ThemeEffect(thTheme')
    /\ UNCHANGED thMounted
    /\ UNCHANGED nonThemeVars

\* A click in the theme selector: setTheme(t), then the effect if it changed
SelectTheme(t) ==
    /\ thMounted
    /\ t # thTheme
    /\ thTheme' = t
    /\ thTrail' = <<>>
    /\ ThemeEffect(t)
    /\ UNCHANGED <<thMounted, thToggles>>
    /\ UNCHANGED nonThemeVars

\* The page is loaded again: the provider starts from localStorage
ThemeReload ==
    /\ thMounted
    /\ thTheme' = savedTheme(thStored)
    /\ thBody' = ""
    /\ thMounted' = FALSE
    /\ thTrail' = <<>>
    /\ UNCHANGED <<thStored, thToggles>>
    /\ UNCHANGED nonThemeVars

NextTheme ==
    \/ ThemeMount
    \/ ToggleTheme
    \/ \E t \in Themes : SelectTheme(t)
    \/ ThemeReload

SpecTheme == InitTheme /\ [][NextTheme]_vars

---------------------------------------------------------------------------
(* Teensy firmware: loop() reads the bytes available on the serial port     *)
(* into commandBuffer and hands the buffer to processCommand.  The host's   *)
(* bytes arrive in batches of any size between two iterations of loop().    *)

MaxStreamLen == 4
SerialChars == {"G", "I", "\n", "\r"}
IsNewline(c) == c = "\n" \/ c = "\r"

\* Sequences over SerialChars of length at most n
RECURSIVE StreamsUpTo(_)
StreamsUpTo(n) ==
    IF n = 0 THEN {<<>>}
    ELSE LET shorter == StreamsUpTo(n - 1)
         IN  shorter \cup {Append(s, c) : s \in {t \in shorter : Len(t) = n - 1},
                                          c \in SerialChars}

\* The while loop of loop(): reads every available byte; the result is
\* <<commandBuffer, commandComplete>>
RECURSIVE ReadAvailable(_, _, _)
ReadAvailable(rx, buf, complete) ==
    IF rx = <<>> THEN <<buf, complete>>
    ELSE LET c == Head(rx)
         IN  IF IsNewline(c)
               THEN ReadAvailable(Tail(rx), buf, IF buf # "" THEN TRUE ELSE complete)
               ELSE ReadAvailable(Tail(rx), buf \o c, complete)

\* After setup(): nothing received yet
InitTeensy ==
    /\ VuIdle
    /\ NonTeensyIdle
    /\ tSent \in StreamsUpTo(MaxStreamLen)
    /\ tStream = tSent
    /\ tRx = <<>>
    /\ commandBuffer = ""
    /\ commandComplete = FALSE
    /\ tProcessed = <<>>

\* The next k bytes arrive at the serial port
SerialArrive(k) ==
    /\ k \in 1..Len(tStream)
    /\ tRx' = tRx \o SubSeq(tStream, 1, k)
    /\ tStream' = SubSeq(tStream, k + 1, Len(tStream))
    /\ UNCHANGED <<tSent, commandBuffer, commandComplete, tProcessed>>
    /\ UNCHANGED nonTeensyVars

\* One iteration of loop() with bytes available (with none it changes nothing)
Loop ==
    /\ tRx # <<>>
    /\ LET read == ReadAvailable(tRx, commandBuffer, commandComplete)
       IN  IF read[2]
             THEN /\ tProcessed' = Append(tProcessed, read[1])
                  /\ commandBuffer' = ""
                  /\ commandComplete' = FALSE
             ELSE /\ tProcessed' = tProcessed
                  /\ commandBuffer' = read[1]
                  /\ commandComplete' = read[2]
    /\ tRx' = <<>>
    /\ UNCHANGED <<tSent, tStream>>
    /\ UNCHANGED nonTeensyVars

NextTeensy ==
    \/ \E k \in 1..MaxStreamLen + 1 : SerialArrive(k)
    \/ Loop

SpecTeensy == InitTeensy /\ [][NextTeensy]_vars

---------------------------------------------------------------------------
(* RetroStereoInterface: the effect that simulates the audio levels.  Its   *)
(* dependencies are powerState, volume and mute; its interval callback is   *)
(* the closure of the render in which the effect ran.  Levels are whole dB. *)

Powers == {"on", "off", "standby"}
Volumes == {0, 100}
Randoms == {-5, 4}              \* Math.random() * 10 - 5, in [-5, 5)
SilentDb == -60
InitialLevelDb == -30
InitialPeakDb == -20

\* baseLevel = -30 + 20 * (volume / 100)
baseLevel(vol) == -30 + (20 * vol) \div 100

\* Mutant: the cleanup leaves the interval running
SimCleanupKeepsInterval(ivs, id) == ivs

\* The effect's cleanup: clearInterval(interval), when the effect made one
SimCleanup(ivs, id) == ClearInterval(ivs, id)

\* The simulation effect after a render with power p, mute m, volume v, on
\* the intervals `ivs`; lp and rp are that render's leftPeak and rightPeak
SimEffect(ivs, p, m, v, lp, rp) ==
    IF p # "on" \/ m
      THEN /\ leftLevel' = SilentDb /\ rightLevel' = SilentDb
           /\ leftPeak' = SilentDb /\ rightPeak' = SilentDb
           /\ simIntervals' = ivs
           /\ simHeld' = 0
      ELSE LET id == FreshId(Ids(ivs) \cup {simHeld})
           IN  /\ simIntervals' = ivs \cup {[id |-> id, volume |-> v,
                                             leftPeak |-> lp, rightPeak |-> rp]}
               /\ simHeld' = id
               /\ UNCHANGED <<leftLevel, rightLevel, leftPeak, rightPeak>>

\* First render: the state from the device prop, the meters at their defaults
InitSim ==
    /\ VuIdle
    /\ NonSimIdle
    /\ simPhase = "rendered"
    /\ powerState \in Powers
    /\ mute \in BOOLEAN
    /\ volume \in Volumes
    /\ leftLevel = InitialLevelDb /\ rightLevel = InitialLevelDb
    /\ leftPeak = InitialPeakDb /\ rightPeak = InitialPeakDb
    /\ simIntervals = {}
    /\ simHeld = 0

\* First commit: the effect runs
SimMount ==
    /\ simPhase = "rendered"
    /\ simPhase' = "mounted"
    /\ SimEffect(simIntervals, powerState, mute, volume, leftPeak, rightPeak)
    /\ UNCHANGED <<powerState, mute, volume>>
    /\ UNCHANGED nonSimVars

\* powerState, mute or volume changes (the power button, the mute button, the
\* volume control, or a new device prop): cleanup, then the effect again
SimInputs(p, m, v) ==
    /\ simPhase = "mounted"
    /\ <<p, m, v>> # <<powerState, mute, volume>>
    /\ powerState' = p /\ mute' = m /\ volume' = v
    /\ SimEffect(SimCleanup(simIntervals, simHeld), p, m, v, leftPeak, rightPeak)
    /\ UNCHANGED simPhase
    /\ UNCHANGED nonSimVars

\* The interval callback runs, with random parts lr and rr
SimTick(i, lr, rr) ==
    /\ i \in simIntervals
    /\ LET newLeftLevel == baseLevel(i.volume) + lr
           newRightLevel == baseLevel(i.volume) + rr
       IN  /\ leftLevel' = newLeftLevel
           /\ rightLevel' = newRightLevel
           /\ leftPeak' = IF newLeftLevel > i.leftPeak THEN newLeftLevel ELSE leftPeak
           /\ rightPeak' = IF newRightLevel > i.rightPeak THEN newRightLevel ELSE rightPeak
    /\ UNCHANGED <<simPhase, powerState, mute, volume, simIntervals, simHeld>>
    /\ UNCHANGED nonSimVars

\* Unmount: the cleanup runs
SimUnmount ==
    /\ simPhase = "mounted"
    /\ simPhase' = "unmounted"
    /\ simIntervals' = SimCleanup(simIntervals, simHeld)
    /\ simHeld' = 0
    /\ UNCHANGED <<powerState, mute, volume, leftLevel, rightLevel, leftPeak, rightPeak>>
    /\ UNCHANGED nonSimVars

NextSim ==
    \/ SimMount
    \/ \E p \in Powers, m \in BOOLEAN, v \in Volumes : SimInputs(p, m, v)
    \/ \E i \in simIntervals, lr \in Randoms, rr \in Randoms : SimTick(i, lr, rr)
    \/ SimUnmount

SpecSim == InitSim /\ [][NextSim]_vars

---------------------------------------------------------------------------
(* Dashboard: fetchDevices (two parallel requests under Promise.all), the   *)
(* 30-second poll started by the mount effect, the Try Again button and the *)
(* tiles, whose commands call onUpdate = fetchDevices when their request    *)
(* succeeds.  State updates of an unmounted component have no effect.       *)

MaxFetches == 3                 \* fetchDevices calls per behaviour
MaxCommands == 1                \* tile commands in flight at a time
NoError == "<null>"
FailedToLoad == "Failed to load devices. Please try again."
DeviceLists == {<<>>, <<"d1">>}

\* What a request may give: a rejection, null, or a device list
Responses ==
    {[ok |-> FALSE, null |-> FALSE, data |-> <<>>],
     [ok |-> TRUE, null |-> TRUE, data |-> <<>>]}
      \cup {[ok |-> TRUE, null |-> FALSE, data |-> l] : l \in DeviceLists}

\* data || []
OrEmpty(r) == IF r.null THEN <<>> ELSE r.data

\* Mutant: each list is updated from its own request (Promise.allSettled style)
fetchSettledEach(th, sp, curTh, curSp) ==
    <<IF th.ok THEN OrEmpty(th) ELSE curTh,
      IF sp.ok THEN OrEmpty(sp) ELSE curSp,
      IF th.ok /\ sp.ok THEN NoError ELSE FailedToLoad>>

\* try / catch of fetchDevices after Promise.all settles with the responses
\* th and sp: the new <<thermostats, smartPlugs, error>>
fetchSettled(th, sp, curTh, curSp) ==
    IF th.ok /\ sp.ok THEN <<OrEmpty(th), OrEmpty(sp), NoError>>
                      ELSE <<curTh, curSp, FailedToLoad>>

\* fetchDevices up to its await: setLoading(true) and the two requests;
\* `mounted` tells whether the Dashboard is mounted when it is called
StartFetch(mounted) ==
    /\ dStarted < MaxFetches
    /\ dStarted' = dStarted + 1
    /\ dCalls' = dCalls \cup {FreshId(dCalls)}
    /\ loading' = IF mounted THEN TRUE ELSE loading

\* First render
InitDash ==
    /\ VuIdle
    /\ NonDashIdle
    /\ dPhase = "rendered"
    /\ thermostats = <<>> /\ smartPlugs = <<>>
    /\ loading = TRUE
    /\ error = NoError
    /\ dCalls = {} /\ dPolls = {} /\ dHeld = 0
    /\ dCommands = 0 /\ dStarted = 0 /\ dDone = 0
    /\ dLast = <<>>

\* The mount effect: fetchDevices() and setInterval(fetchDevices, 30000)
DashMount ==
    /\ dPhase = "rendered"
    /\ dPhase' = "mounted"
    /\ StartFetch(TRUE)
    /\ LET id == FreshId(Ids(dPolls) \cup {dHeld})
       IN  dPolls' = dPolls \cup {[id |-> id]} /\ dHeld' = id
    /\ UNCHANGED <<thermostats, smartPlugs, error, dCommands, dDone, dLast>>
    /\ UNCHANGED nonDashVars

\* The interval callback
DashPoll(i) ==
    /\ i \in dPolls
    /\ StartFetch(dPhase = "mounted")
    /\ UNCHANGED <<dPhase, thermostats, smartPlugs, error, dPolls, dHeld,
                   dCommands, dDone, dLast>>
    /\ UNCHANGED nonDashVars

\* The error screen is shown
ShowsError ==
    /\ dPhase = "mounted"
    /\ ~(loading /\ thermostats = <<>> /\ smartPlugs = <<>>)
    /\ error # NoError

\* The tiles are shown
ShowsTiles ==
    /\ dPhase = "mounted"
    /\ ~(loading /\ thermostats = <<>> /\ smartPlugs = <<>>)
    /\ error = NoError
    /\ thermostats # <<>> \/ smartPlugs # <<>>

\* A click on Try Again
TryAgain ==
    /\ ShowsError
    /\ StartFetch(dPhase = "mounted")
    /\ UNCHANGED <<dPhase, thermostats, smartPlugs, error, dPolls, dHeld,
                   dCommands, dDone, dLast>>
    /\ UNCHANGED nonDashVars

\* Promise.all of the call c settles with the responses th and sp
FetchSettles(c, th, sp) ==
    /\ c \in dCalls
    /\ dCalls' = dCalls \ {c}
    /\ dDone' = dDone + 1
    /\ dLast' = <<th, sp>>
    /\ IF dPhase = "mounted"
         THEN LET new == fetchSettled(th, sp, thermostats, smartPlugs)
              IN  /\ thermostats' = new[1]
                  /\ smartPlugs' = new[2]
                  /\ error' = new[3]
                  /\ loading' = FALSE
         ELSE UNCHANGED <<thermostats, smartPlugs, error, loading>>
    /\ UNCHANGED <<dPhase, dPolls, dHeld, dCommands, dStarted>>
    /\ UNCHANGED nonDashVars

\* A tile's handler sends its request (SmartPlugTile.handleToggle,
\* ThermostatTile.handleSetTemperature, handleModeChange)
TileCommand ==
    /\ ShowsTiles
    /\ dCommands < MaxCommands
    /\ dCommands' = dCommands + 1
    /\ UNCHANGED <<dPhase, thermostats, smartPlugs, loading, error, dCalls, dPolls,
                   dHeld, dStarted, dDone, dLast>>
    /\ UNCHANGED nonDashVars

\* The tile's request succeeds: onUpdate()
TileCommandDone ==
    /\ dCommands > 0
    /\ dCommands' = dCommands - 1
    /\ StartFetch(dPhase = "mounted")
    /\ UNCHANGED <<dPhase, thermostats, smartPlugs, error, dPolls, dHeld, dDone, dLast>>
    /\ UNCHANGED nonDashVars

\* The tile's request fails: the error is logged
TileCommandFails ==
    /\ dCommands > 0
    /\ dCommands' = dCommands - 1
    /\ UNCHANGED <<dPhase, thermostats, smartPlugs, loading, error, dCalls, dPolls,
                   dHeld, dStarted, dDone, dLast>>
    /\ UNCHANGED nonDashVars

\* Unmount: clearInterval(interval)
DashUnmount ==
    /\ dPhase = "mounted"
    /\ dPhase' = "unmounted"
    /\ dPolls' = ClearInterval(dPolls, dHeld)
    /\ UNCHANGED <<thermostats, smartPlugs, loading, error, dCalls, dHeld,
                   dCommands, dStarted, dDone, dLast>>
    /\ UNCHANGED nonDashVars

NextDash ==
    \/ DashMount
    \/ \E i \in dPolls : DashPoll(i)
    \/ TryAgain
    \/ \E c \in dCalls, th \in Responses, sp \in Responses : FetchSettles(c, th, sp)
    \/ TileCommand
    \/ TileCommandDone
    \/ TileCommandFails
    \/ DashUnmount

SpecDash == InitDash /\ [][NextDash]_vars

---------------------------------------------------------------------------
(* ThermostatTile: handleSetTemperature and handleModeChange, called in any *)
(* state of the tile (the buttons' disabled attributes are not relied on),  *)
(* with the thermostat prop changing between calls.                         *)

MaxTileCalls == 2               \* handler calls per behaviour
Modes == {"off", "heat", "cool", "auto"}
ModeButtons == {"heat", "cool", "off"}
HeatSetpoint == 68
CoolSetpoint == 75
OtherTemp == 70
SliderTemps == {60, 85}

\* initialTemp, and the value the [mode, setpoints] effect leaves in temperature
setpointFor(mode, cur) ==
    IF mode = "cool" THEN CoolSetpoint
    ELSE IF mode = "heat" THEN HeatSetpoint ELSE cur

\* Mutant: no check of the mode before the temperature command
sendsTemperatureAlways(mode) == TRUE

\* handleSetTemperature goes on to send the command
sendsTemperature(mode) == mode # "off"

\* Mutant: no check of the current mode before the mode command
sendsModeAlways(mode, cur) == TRUE

\* handleModeChange goes on to send the command
sendsMode(mode, cur) == mode # cur

\* First render, for a thermostat in any mode
InitTile ==
    /\ VuIdle
    /\ NonTileIdle
    /\ tileMode \in Modes
    /\ temperature = setpointFor(tileMode, OtherTemp)
    /\ isEditing = FALSE
    /\ tileLoading = FALSE
    /\ tileRequests = {}
    /\ tileCalls = 0 /\ tileLast = <<>> /\ tileSent = 0 /\ tileSettled = 0
    /\ tileUpdates = 0

\* A request sent by a handler
NewTileRequest(kind, mode, value) ==
    [id |-> FreshId(Ids(tileRequests)), kind |-> kind, mode |-> mode, value |-> value]

\* A new thermostat prop: the effect sets temperature to the mode's setpoint
ThermostatProp(m) ==
    /\ m # tileMode
    /\ tileMode' = m
    /\ temperature' = setpointFor(m, temperature)
    /\ UNCHANGED <<isEditing, tileLoading, tileRequests, tileCalls, tileLast, tileSent,
                   tileSettled, tileUpdates>>
    /\ UNCHANGED nonTileVars

\* Click on the setpoint (edit) or on Cancel
SetIsEditing(e) ==
    /\ e # isEditing
    /\ isEditing' = e
    /\ UNCHANGED <<tileMode, temperature, tileLoading, tileRequests, tileCalls, tileLast,
                   tileSent, tileSettled, tileUpdates>>
    /\ UNCHANGED nonTileVars

\* handleTemperatureChange: the slider
TemperatureChange(v) ==
    /\ isEditing
    /\ v # temperature
    /\ temperature' = v
    /\ UNCHANGED <<tileMode, isEditing, tileLoading, tileRequests, tileCalls, tileLast,
                   tileSent, tileSettled, tileUpdates>>
    /\ UNCHANGED nonTileVars

\* handleSetTemperature up to its await
HandleSetTemperature ==
    /\ tileCalls < MaxTileCalls
    /\ tileCalls' = tileCalls + 1
    /\ tileLast' = <<"handleSetTemperature", "">>
    /\ IF sendsTemperature(tileMode)
         THEN /\ tileLoading' = TRUE
              /\ tileRequests' = tileRequests
                    \cup {NewTileRequest("temperature", tileMode, temperature)}
              /\ tileSent' = tileSent + 1
              /\ UNCHANGED isEditing
         ELSE /\ isEditing' = FALSE
              /\ UNCHANGED <<tileLoading, tileRequests, tileSent>>
    /\ UNCHANGED <<tileMode, temperature, tileSettled, tileUpdates>>
    /\ UNCHANGED nonTileVars

\* handleModeChange(mode) up to its await
HandleModeChange(mode) ==
    /\ tileCalls < MaxTileCalls
    /\ tileCalls' = tileCalls + 1
    /\ tileLast' = <<"handleModeChange", mode>>
    /\ IF sendsMode(mode, tileMode)
         THEN /\ tileLoading' = TRUE
              /\ tileRequests' = tileRequests \cup {NewTileRequest("mode", mode, 0)}
              /\ tileSent' = tileSent + 1
         ELSE UNCHANGED <<tileLoading, tileRequests, tileSent>>
    /\ UNCHANGED <<tileMode, temperature, isEditing, tileSettled, tileUpdates>>
    /\ UNCHANGED nonTileVars

\* The request r succeeds: the rest of the try block, then finally
TileRequestSucceeds(r) ==
    /\ r \in tileRequests
    /\ tileRequests' = tileRequests \ {r}
    /\ tileSettled' = tileSettled + 1
    /\ isEditing' = IF r.kind = "temperature" THEN FALSE ELSE isEditing
    /\ tileUpdates' = tileUpdates + 1
    /\ tileLoading' = FALSE
    /\ UNCHANGED <<tileMode, temperature, tileCalls, tileLast, tileSent>>
    /\ UNCHANGED nonTileVars

\* The request r fails: catch, then finally
TileRequestFails(r) ==
    /\ r \in tileRequests
    /\ tileRequests' = tileRequests \ {r}
    /\ tileSettled' = tileSettled + 1
    /\ tileLoading' = FALSE
    /\ UNCHANGED <<tileMode, temperature, isEditing, tileCalls, tileLast, tileSent,
                   tileUpdates>>
    /\ UNCHANGED nonTileVars

NextTile ==
    \/ \E m \in Modes : ThermostatProp(m)
    \/ \E e \in BOOLEAN : SetIsEditing(e)
    \/ \E v \in SliderTemps : TemperatureChange(v)
    \/ HandleSetTemperature
    \/ \E m \in ModeButtons : HandleModeChange(m)
    \/ \E r \in tileRequests : TileRequestSucceeds(r)
    \/ \E r \in tileRequests : TileRequestFails(r)

SpecTile == InitTile /\ [][NextTile]_vars

---------------------------------------------------------------------------
(* Claims about the needle update rule (checked under SpecNeedle) *)

CodeFactor == nNum = SpringNum /\ nDen = SpringDen

C9_OneStepRule ==
    [][ CodeFactor =>
          /\ 2 * (100 * (nPos' - nPos) - 8 * (nTarget - nPos)) <= 100
          /\ 2 * (8 * (nTarget - nPos) - 100 * (nPos' - nPos)) <= 100
          /\ (nPos = 0 /\ nTarget = -60 * Scale => nPos' = -48 * (Scale \div 10))
      ]_needleVars

\* C9 witness: the step from 0 toward -60 dB has been taken
C9_Witness ==
    /\ CodeFactor /\ nStart = 0 /\ nTarget = -60 * Scale
    /\ nSteps = 1 /\ nPos = -48 * (Scale \div 10)

EndToEnd == CodeFactor /\ nStart = -60 * Scale /\ nTarget = 0

\* C10 as stated: from -60 dB with target 0 and factor 0.08, after 30 frames the
\* needle is within 1 dB of 0.
C10_Within1dBAfter30 ==
    EndToEnd /\ nSteps = 30 => nPos >= -Scale /\ nPos <= Scale

\* C10 amended: after 30 frames the needle is within 5 dB of 0 (60 * 0.92^30,
\* about 4.92 dB below it) and not within 1 dB; it is within 1 dB after 50 frames.
C10_Within5dBAfter30 ==
    /\ EndToEnd /\ nSteps = 30 =>
          /\ nPos >= -5 * Scale /\ nPos < -Scale
          /\ nPos >= -493 * (Scale \div 100) /\ nPos <= -491 * (Scale \div 100)
    /\ EndToEnd /\ nSteps = 50 => nPos >= -Scale /\ nPos <= 0

\* C10 witness: the 30th frame of the end-to-end scenario
C10_Witness == EndToEnd /\ nSteps = 30 /\ nPos > -5 * Scale

---------------------------------------------------------------------------
(* Claims about the mounted meter (checked under Spec and SpecLive) *)

DecayTickStep == \E i \in intervals : DecayTick(i)
FrameStep == \E r \in rafPending : Frame(r)
InputsChange == <<level, peak, showPeakHold, theme>>' # <<level, peak, showPeakHold, theme>>

\* C2 as stated: after any decay tick peakHoldDb is >= the peak input it was
\* compared against.
C2_DecayNeverUndershoots ==
    [][DecayTickStep => peakHoldRef' >= peak]_vars

\* C3: a decay tick subtracts exactly 0.5 dB from peakHoldDb when it is greater
\* than the current peak input and leaves it unchanged otherwise; from -5 dB
\* with input -20 dB one tick gives -5.5 dB, and a tick at -20 dB changes nothing.
C3_DecayTickRule ==
    [][DecayTickStep =>
          /\ (peakHoldRef > peak => peakHoldRef' = peakHoldRef - Scale \div 2)
          /\ (peakHoldRef <= peak => peakHoldRef' = peakHoldRef)
          /\ (peakHoldRef = -5 * Scale /\ peak = -20 * Scale
                => peakHoldRef' = -55 * (Scale \div 10))
          /\ (peakHoldRef = -20 * Scale /\ peak = -20 * Scale
                => peakHoldRef' = -20 * Scale)
      ]_vars

\* C3 witness: the first tick from -5 dB with input -20 dB has run, the next is due
C3_Witness ==
    /\ phase = "mounted" /\ peak = -20 * Scale
    /\ peakHoldRef = -55 * (Scale \div 10)
    /\ \E i \in intervals : i.elapsed = StepsPerPeriod

\* C4: peakHoldDb increases only in a step that changes the peak input to a
\* value greater than peakHoldDb, and then it becomes that value.
C4_RisesOnlyByInput ==
    [][peakHoldRef' > peakHoldRef =>
          peak' # peak /\ peak' > peakHoldRef /\ peakHoldRef' = peak']_vars

\* C4 witness: peakHoldDb has risen above both initial peaks and decayed since,
\* and frames have been drawn
C4_Witness ==
    /\ phase = "mounted" /\ draws >= 1
    /\ peakHoldRef > -10 * Scale /\ peakHoldRef > peak
    /\ peakHoldRef \notin Peaks

\* C5: a peak input greater than peakHoldDb becomes peakHoldDb in the same update.
C5_RiseIsImmediate ==
    [][peak' # peak /\ peak' > peakHoldRef => peakHoldRef' = peak']_vars

\* C5 witness: peakHoldDb is -5 dB, above both initial peaks, right after the
\* update (the new interval has not run yet)
C5_Witness ==
    /\ phase = "mounted" /\ peak = -5 * Scale /\ peakHoldRef = -5 * Scale
    /\ \A i \in intervals : i.elapsed = 0

\* C6 as stated: if the meter stays mounted with peakHoldDb above the peak input
\* forever, decay ticks keep decreasing peakHoldDb.
C6_DecayNotStarved ==
    <>[](phase = "mounted" /\ peakHoldRef > peak)
        => []<><<peakHoldRef' < peakHoldRef>>_vars

\* C7: once unmounted, no interval is active and no animation-frame request is
\* pending, and neither needlePositionDb nor peakHoldDb changes again.
C7_TeardownReleasesAll ==
    /\ [](phase = "unmounted" => intervals = {} /\ rafPending = {})
    /\ [][phase = "unmounted" =>
            needlePosRef' = needlePosRef /\ peakHoldRef' = peakHoldRef]_vars

\* C7 witness: unmounted after the needle moved and the peak hold decayed
C7_Witness ==
    /\ phase = "unmounted" /\ draws >= 1 /\ peakHoldRef \notin Peaks

\* C8 as stated: needlePositionDb changes only in an animation-frame callback.
C8_NeedleMovesOnlyInFrames ==
    [][needlePosRef' # needlePosRef => FrameStep]_vars

\* C8 amended: the needle is advanced exactly once per call of draw (each call
\* schedules the next frame); draw runs in an animation-frame callback and also
\* synchronously when the drawing effect runs, on mount and on every change of
\* the level, peak, showPeakHold or theme input; no other step moves the needle.
C8_NeedleMovesOncePerDraw ==
    [][ /\ (animationRef' = animationRef => needlePosRef' = needlePosRef)
        /\ (animationRef' # animationRef =>
              /\ 2 * (100 * (needlePosRef' - needlePosRef)
                        - 8 * (level' - needlePosRef)) <= 100
              /\ 2 * (8 * (level' - needlePosRef)
                        - 100 * (needlePosRef' - needlePosRef)) <= 100
              /\ \/ FrameStep
                 \/ phase = "mounted" /\ InputsChange
                 \/ phase = "rendered" /\ phase' = "mounted")
      ]_vars

\* C8 witness: after a change of the peak input, the needle has been advanced
\* once and is on its way to the level
C8_Witness ==
    /\ phase = "mounted" /\ draws = 1 /\ needlePosRef # level
    /\ \A i \in intervals : i.elapsed = 0
    /\ peak \notin InitialPeaks

---------------------------------------------------------------------------
(* Claims about equilibrium, the mappings and the displayed angles *)

\* C11: when the needle position equals the target, a frame leaves it unchanged
\* (position -20 dB, target -20 dB stays -20 dB), frame after frame.
C11_EquilibriumFixedPoint ==
    /\ [][nPos = nTarget => nPos' = nPos]_needleVars
    /\ [](nStart = nTarget => nPos = nTarget)

\* C11 witness: frames have run at -20 dB with target -20 dB
C11_Witness ==
    /\ CodeFactor /\ nStart = -20 * Scale /\ nTarget = -20 * Scale
    /\ nSteps >= 3 /\ nPos = -20 * Scale

\* The input clamped to [-60, 6] dB, written out
Clamped(db) ==
    IF db < -60 * Scale THEN -60 * Scale ELSE IF db > 6 * Scale THEN 6 * Scale ELSE db

PercentOf(db, pct) ==
    /\ pct >= 0 /\ pct <= Scale
    /\ 2 * (66 * pct - (Clamped(db) + 60 * Scale)) <= 66
    /\ 2 * ((Clamped(db) + 60 * Scale) - 66 * pct) <= 66

FromDb == mStage \in {"percent", "angle"}

Saturates(db, pct) ==
    /\ db <= -60 * Scale => pct = 0
    /\ db >= 6 * Scale => pct = Scale

\* C13: dbToPercent is exactly 0 for every db <= -60 and exactly 1 for every db >= 6.
C13_Saturation ==
    FromDb => Saturates(mDbA, mPctA) /\ Saturates(mDbB, mPctB)

\* C13 witness: -70 dB and 7 dB have been mapped
C13_Witness ==
    /\ mStage = "percent" /\ mDbA = -70 * Scale /\ mDbB = 7 * Scale
    /\ mPctA = 0 /\ mPctB = Scale

\* C14: both mappings are monotonic non-decreasing: for inputs a <= b the
\* percents are ordered, and for percents a <= b the angles are ordered.
C14_Monotonic ==
    /\ FromDb => mPctA <= mPctB
    /\ mStage \in {"angle", "rawangle"} => mAngA <= mAngB

\* C14 witness: angles of two different percents given directly
C14_Witness ==
    /\ mStage = "rawangle" /\ mPctA < mPctB /\ mAngA < mAngB

\* C15: percentToAngle(dbToPercent(-60)) = -45 and percentToAngle(dbToPercent(6))
\* = 45 degrees, and percentToAngle(u) = -45 + 90 u for every u.
C15_EndpointAngles ==
    /\ mStage = "angle" =>
          /\ (mDbA = -60 * Scale => mAngA = -45 * Scale)
          /\ (mDbB = 6 * Scale => mAngB = 45 * Scale)
    /\ mStage \in {"angle", "rawangle"} =>
          /\ mAngA + 45 * Scale = 90 * mPctA
          /\ mAngB + 45 * Scale = 90 * mPctB

\* C15 witness: both endpoints mapped through both functions
C15_Witness ==
    /\ mStage = "angle" /\ mDbA = -60 * Scale /\ mDbB = 6 * Scale
    /\ mAngA = -45 * Scale /\ mAngB = 45 * Scale

\* C16: the needle angle and the peak angle a frame computes lie in [-45, 45]
\* degrees, also when the stored needle position or the peak hold lies outside
\* [-60, 6] dB (the position itself is not clamped: see the witness).
C16_AnglesClamped ==
    /\ nSteps >= 1 => nAngle >= -45 * Scale /\ nAngle <= 45 * Scale
    /\ nPeakDrawn => nPeakAngle >= -45 * Scale /\ nPeakAngle <= 45 * Scale

\* C16 witness: with target 10 dB the stored position has left [-60, 6] while
\* the needle angle is 45 degrees; the peak hold of 10 dB is drawn at 45 degrees
C16_Witness ==
    /\ CodeFactor /\ nTarget = 10 * Scale /\ nPos > 6 * Scale
    /\ nAngle = 45 * Scale
    /\ nPeakHold = 10 * Scale /\ nPeakDrawn /\ nPeakAngle = 45 * Scale

---------------------------------------------------------------------------
(* Claims about the lifetime of the meter's state (checked under Spec) *)

\* C19: a change of the level, peak, showPeakHold or theme input never resets
\* the refs: peakHoldDb keeps its value unless the new peak is higher, and the
\* needle takes one step of the rule from its previous position; it does not
\* jump to the new level.
C19_StatePersistsAcrossInputs ==
    [][phase = "mounted" /\ InputsChange =>
          /\ peakHoldRef' >= peakHoldRef
          /\ (peakHoldRef' # peakHoldRef => peakHoldRef' = peak')
          /\ 2 * (100 * (needlePosRef' - needlePosRef)
                    - 8 * (level' - needlePosRef)) <= 100
          /\ 2 * (8 * (level' - needlePosRef)
                    - 100 * (needlePosRef' - needlePosRef)) <= 100
          /\ (needlePosRef # level' => needlePosRef' # level')
      ]_vars

\* C19 witness: after the peak went up to -5 dB and down to -20 dB and the level
\* went to -60 dB, the peak hold is still -5 dB and the needle is one step
\* from its initial -20 dB
C19_Witness ==
    /\ phase = "mounted" /\ peak = -20 * Scale /\ peakHoldRef = -5 * Scale
    /\ level = -60 * Scale /\ needlePosRef = -232 * (Scale \div 10)

\* C20: a meter is created with the needle at its initial level and the peak
\* hold at its initial peak (defaults -20 and -10 dB); while the refs equal the
\* inputs and the inputs do not change, no step moves the needle or the peak hold.
C20_CreatedAtInputs ==
    /\ phase = "rendered" /\ needlePosRef = level /\ peakHoldRef = peak
    /\ level = -20 * Scale /\ peak \in {-10 * Scale, -20 * Scale}
    /\ [][needlePosRef = level /\ peakHoldRef = peak /\ ~InputsChange =>
            needlePosRef' = needlePosRef /\ peakHoldRef' = peakHoldRef]_vars

\* C20 witness: mounted with the default inputs unchanged, a frame request
\* issued after the mount's, a decay tick due, and the refs still at the inputs
C20_Witness ==
    /\ phase = "mounted" /\ level = -20 * Scale /\ peak = -10 * Scale
    /\ needlePosRef = level /\ peakHoldRef = peak
    /\ animationRef # 1
    /\ \E i \in intervals : i.elapsed = StepsPerPeriod

---------------------------------------------------------------------------
(* Claims about two instances (checked under SpecStereo) *)

ScheduledFor(set, d) == {x \in set : x.owner = d}

\* C18: a step of one meter instance (an input change, a frame, a decay tick,
\* its mount or unmount) leaves the needle position, the peak hold, the
\* animation ref and the scheduled callbacks of every other instance unchanged.
C18_InstancesIndependent ==
    [][\A d \in Channels : d # actor' =>
          /\ chNeedle'[d] = chNeedle[d]
          /\ chPeakHold'[d] = chPeakHold[d]
          /\ chAnimation'[d] = chAnimation[d]
          /\ ScheduledFor(hostFrames', d) = ScheduledFor(hostFrames, d)
          /\ ScheduledFor(hostIntervals', d) = ScheduledFor(hostIntervals, d)
      ]_vars

\* C18 witness: the left needle has moved and the left peak hold has risen while
\* the right instance, mounted with its callbacks scheduled, is as it started
C18_Witness ==
    /\ chPhase["left"] = "mounted" /\ chPhase["right"] = "mounted"
    /\ chNeedle["left"] # -30 * Scale /\ chPeakHold["left"] # -20 * Scale
    /\ chNeedle["right"] = -30 * Scale /\ chPeakHold["right"] = -20 * Scale
    /\ ScheduledFor(hostFrames, "right") # {}
    /\ ScheduledFor(hostIntervals, "right") # {}

---------------------------------------------------------------------------
(* Claims about the order of frames and decay ticks (checked under SpecOrder) *)

RECURSIVE NeedleAfter(_, _, _)
NeedleAfter(pos, lvl, k) ==
    IF k = 0 THEN pos ELSE NeedleAfter(AdvanceNeedle(pos, lvl), lvl, k - 1)

RECURSIVE HoldAfter(_, _, _)
HoldAfter(hold, p, k) ==
    IF k = 0 THEN hold ELSE HoldAfter(DecayPeakHold(hold, p), p, k - 1)

\* C21: a frame draw never changes peakHoldDb and a decay tick never changes
\* needlePositionDb, so after any interleaving of frames and decay ticks
\* needlePositionDb is what the frames alone give and peakHoldDb is what the
\* ticks alone give, whatever the order.
C21_FramesAndTicksCommute ==
    /\ [][ /\ (oFrames' # oFrames => oHold' = oHold)
           /\ (oTicks' # oTicks => oNeedle' = oNeedle) ]_vars
    /\ [](/\ oNeedle = NeedleAfter(oNeedle0, oLevel, oFrames)
          /\ oHold = HoldAfter(oHold0, oPeak, oTicks))

\* C21 witness: frames and ticks have both run, and both refs have moved
C21_Witness ==
    /\ oFrames >= 2 /\ oTicks >= 2
    /\ oNeedle # oNeedle0 /\ oHold # oHold0

---------------------------------------------------------------------------
(* Claims about the theme (checked under SpecTheme) *)

\* C22: toggleTheme cycles default -> retro -> night -> default: from any of
\* the three themes a toggle changes the theme to the next one in that order,
\* which is again one of the three, three consecutive toggles return to the
\* starting theme, and from an unrecognised theme one toggle yields default.
C22_ToggleCycles ==
    /\ [][thToggles' # thToggles =>
            /\ (thTheme \in Themes => thTheme' # thTheme /\ thTheme' \in Themes)
            /\ (thTheme = "default" => thTheme' = "retro")
            /\ (thTheme = "retro" => thTheme' = "night")
            /\ (thTheme = "night" => thTheme' = "default")
            /\ (thTheme \notin Themes => thTheme' = "default")
         ]_vars
    /\ [](Len(thTrail) = 3 /\ thTrail[1] \in Themes => thTheme = thTrail[1])

\* C22 witness: three consecutive toggles from night are back at night
C22_Witness ==
    /\ thTrail = <<"night", "default", "retro">> /\ thTheme = "night"

---------------------------------------------------------------------------
(* Claims about the Teensy command loop (checked under SpecTeensy) *)

\* The non-empty newline-terminated lines of a byte sequence, in order
RECURSIVE LinesOf(_, _)
LinesOf(bytes, cur) ==
    IF bytes = <<>> THEN <<>>
    ELSE IF IsNewline(Head(bytes))
           THEN (IF cur # "" THEN <<cur>> ELSE <<>>) \o LinesOf(Tail(bytes), "")
           ELSE LinesOf(Tail(bytes), cur \o Head(bytes))

\* The bytes loop() has read so far
BytesRead == SubSeq(tSent, 1, Len(tSent) - Len(tStream) - Len(tRx))

\* C23 as stated: every non-empty newline-terminated line received is processed
\* as its own command, in arrival order, however the bytes are batched across
\* loop() iterations, and the command buffer is empty after each processed
\* command.
C23_EachLineItsOwnCommand ==
    /\ tProcessed = LinesOf(BytesRead, "")
    /\ (tProcessed # <<>> /\ BytesRead # <<>> /\ IsNewline(BytesRead[Len(BytesRead)])
          => commandBuffer = "")

---------------------------------------------------------------------------
(* Claims about the timers of one meter (checked under Spec) *)

\* C24: for one mounted meter, after any sequence of input changes, frames and
\* decay ticks, at most one animation-frame request is pending and at most one
\* decay interval is active.
C24_AtMostOneOfEachTimer ==
    phase = "mounted" => Cardinality(rafPending) <= 1 /\ Cardinality(intervals) <= 1

\* C24 witness: after a change of the peak input, a moved needle and a decay
\* tick, one request is pending and one interval is active
C24_Witness ==
    /\ phase = "mounted" /\ draws >= 1
    /\ peak \notin InitialPeaks /\ peakHoldRef \notin Peaks
    /\ Cardinality(rafPending) = 1 /\ Cardinality(intervals) = 1

---------------------------------------------------------------------------
(* Claims about the level simulation (checked under SpecSim) *)

SimTickStep == \E i \in simIntervals, lr \in Randoms, rr \in Randoms : SimTick(i, lr, rr)

\* C25 as stated: while the simulation runs, leftPeak and rightPeak never
\* decrease from one simulation tick to the next.
C25_PeaksNeverDecrease ==
    [][SimTickStep => leftPeak' >= leftPeak /\ rightPeak' >= rightPeak]_vars

\* C26: whenever powerState is not 'on' or mute is true, both levels and both
\* peaks are -60 and no simulation interval is active; an interval is active
\* only while power is 'on' and mute is false, and at most one exists.
C26_SilentWhenOffOrMuted ==
    simPhase = "mounted" =>
        /\ (powerState # "on" \/ mute =>
              /\ leftLevel = SilentDb /\ rightLevel = SilentDb
              /\ leftPeak = SilentDb /\ rightPeak = SilentDb
              /\ simIntervals = {})
        /\ (simIntervals # {} => powerState = "on" /\ ~mute)
        /\ Cardinality(simIntervals) <= 1

\* C26 witness: in standby the effect has set the levels and peaks, -30 and -20
\* after the first render, to -60, and no interval is active
C26_Witness ==
    /\ simPhase = "mounted" /\ powerState = "standby" /\ ~mute
    /\ leftLevel = SilentDb /\ rightLevel = SilentDb
    /\ leftPeak = SilentDb /\ rightPeak = SilentDb
    /\ simIntervals = {}

---------------------------------------------------------------------------
(* Claims about the Dashboard (checked under SpecDash) *)

C28_LoadingWhileInFlight ==
    dPhase = "mounted" /\ dCalls # {} => loading

\* C29 as stated: the Dashboard starts exactly one polling interval on mount and
\* clears it on unmount, and after the unmount no further fetchDevices call is
\* started, including by commands of its tiles that were in flight at unmount.
C29_PollingTiedToLifecycle ==
    /\ [](dPhase = "mounted" => Cardinality(dPolls) = 1)
    /\ [](dPhase = "unmounted" => dPolls = {})
    /\ [][dPhase = "unmounted" => dStarted' = dStarted]_vars

---------------------------------------------------------------------------
(* Claims about the thermostat tile (checked under SpecTile) *)

tileState == <<temperature, isEditing, tileLoading>>

\* C30: handleSetTemperature in mode 'off' sends no request and only leaves
\* editing mode; handleModeChange for the mode the thermostat is already in
\* sends no request and changes nothing; every other call of the two handlers
\* sends exactly one request, of its own kind, and sets loading; and loading is
\* false after a request's response, success or failure.
C30_NoRequestWhenNotAllowed ==
    /\ [][tileCalls' # tileCalls =>
            LET setOff == tileLast'[1] = "handleSetTemperature" /\ tileMode = "off"
                sameMode == tileLast'[1] = "handleModeChange" /\ tileLast'[2] = tileMode
                kind == IF tileLast'[1] = "handleSetTemperature" THEN "temperature"
                                                                ELSE "mode"
            IN  /\ (setOff => /\ tileSent' = tileSent /\ tileRequests' = tileRequests
                              /\ ~isEditing'
                              /\ temperature' = temperature
                              /\ tileLoading' = tileLoading)
                /\ (sameMode => /\ tileSent' = tileSent /\ tileRequests' = tileRequests
                                /\ tileState' = tileState)
                /\ (~setOff /\ ~sameMode =>
                      /\ tileSent' = tileSent + 1
                      /\ tileRequests \subseteq tileRequests'
                      /\ Cardinality(tileRequests' \ tileRequests) = 1
                      /\ \A r \in tileRequests' \ tileRequests : r.kind = kind
                      /\ tileLoading')
         ]_vars
    /\ [][tileSettled' # tileSettled => ~tileLoading']_vars

\* C30 witness: editing was left by handleSetTemperature in mode 'off' without a
\* request, after an earlier mode command was sent and answered
C30_Witness ==
    /\ tileMode = "off" /\ tileLast = <<"handleSetTemperature", "">>
    /\ tileCalls = 2 /\ tileSent = 1 /\ tileSettled = 1
    /\ ~isEditing /\ ~tileLoading /\ temperature \in SliderTemps

====
